---- MODULE Spec2Model ----
(***************************************************************************)
(* Model of rag-service/main.py: the session store (sessions guarded by    *)
(* the reentrant sessions_lock) and the six request handlers that run on   *)
(* concurrent worker threads: process-pdf, ask, summarize, compare, reset  *)
(* and status.  PDF loading, splitting, index building, similarity search  *)
(* and the generation backend are external collaborators: their outcomes   *)
(* are chosen nondeterministically among the ones the handlers react to.   *)
(***************************************************************************)
EXTENDS Integers, Sequences, FiniteSets, TLC

\* ------------------------------------------------------------------------
\* Bounds
\* ------------------------------------------------------------------------
\* number of process-pdf requests that reach the clock read (line 205)
MaxIngest == 2

\* request-handling worker threads; a request of any kind runs on any of them
Threads == {"w1", "w2"}
AllOps == {"process-pdf", "ask", "summarize", "compare", "reset", "status"}
\* values of the X-Session-ID header; NoHeader is a request without it
NoHeader == "<absent>"
Headers == {NoHeader, "A"}
\* a JSON list or object: a value that cannot be the key of a dict
Unhashable == "<unhashable>"
\* values of session_id_1 and session_id_2 in the body of a compare request;
\* NoHeader is a body without the field
BodyIds == Headers \cup {Unhashable}
\* files a process-pdf request can name: one that PyPDFLoader cannot load, one
\* without pages, one whose pages give no chunks, and a readable document
\* (every upload of it is a document of its own, see ChunksOf)
Files == {"missing.pdf", "nopages.pdf", "blank.pdf", "doc.pdf"}
\* question strings, as sequences of characters
Questions == {<<" ">>, <<"q">>}

\* generated texts handed to normalize_answer: up to MaxPieces of these pieces
\* (echoed prompt labels, letters spaced out, runs of blanks and of newlines)
\* one behind the other
MaxPieces == 3
Pieces == {<<"A", "n", "s", "w", "e", "r", ":">>,
           <<"C", "o", "n", "t", "e", "x", "t", ":", " ">>,
           <<"q", "u", "e", "s", "t", "i", "o", "n", ":">>,
           <<"a", " ", "b", " ", "c">>,
           <<"a", " ", " ", "b", " ">>,
           <<"\n", "\n", "\n">>,
           <<"\r", "\n">>,
           <<"é">>,
           <<" ">>,
           <<"x">>}

RECURSIVE TextsOf(_)
TextsOf(n) ==
    IF n = 0 THEN {<< >>}
    ELSE LET shorter == TextsOf(n - 1) IN
         shorter \cup {t \o p : t \in shorter, p \in Pieces}

Texts == TextsOf(MaxPieces)

\* histories supplied with an ask request: up to MaxHistory entries, each a
\* dict with role and content (a missing or empty one reads as ""), or
\* something that is no dict
MaxHistory == 6

\* requests that arrive in a run whose progress is followed to its end
MaxArrivals == 2
Msgs == {[dict |-> TRUE, role |-> "user", content |-> "q"],
         [dict |-> TRUE, role |-> "assistant", content |-> "a"],
         [dict |-> TRUE, role |-> "", content |-> "a"],
         [dict |-> FALSE, role |-> "", content |-> ""]}

Histories == UNION {[1..n -> Msgs] : n \in 0..MaxHistory}

\* the history fields of the ask requests the service receives: none, and one
\* whose entry is not a dict
AskHistories == {<< >>, <<[dict |-> FALSE, role |-> "", content |-> ""]>>}

\* ------------------------------------------------------------------------
\* Values
\* ------------------------------------------------------------------------
\* Python None for a vectorstore and for an upload_time
NoneVS == [id |-> 0, chunks |-> {}]
NoneTime == 0

\* request.headers.get("X-Session-ID", "default")
SessionIdOf(h) == IF h = NoHeader THEN "default" ELSE h

Keys == {SessionIdOf(h) : h \in Headers}

LoadSkipsEmptyChecks(f) ==
    IF f = "missing.pdf" THEN "raise" ELSE "ok"

\* loader.load() and splitter.split_documents of a file: "raise", "nopages",
\* "nochunks", or "ok"
LoadOutcome(f) ==
    CASE f = "missing.pdf" -> "raise"
      [] f = "nopages.pdf" -> "nopages"
      [] f = "blank.pdf"   -> "nochunks"
      [] OTHER             -> "ok"

\* the chunks split from the document uploaded as file f by the process-pdf
\* request that read clock value n: every request uploads a document of its
\* own, so its chunks are told apart by n
ChunksOf(f, n) == {[src |-> n, doc |-> f]}

\* FAISS.from_documents(chunks, embedding_model): a new index object over
\* exactly these chunks; the object built by the request that read clock
\* value n is called n
FromDocuments(chunks, n) == [id |-> n, chunks |-> chunks]

\* ------------------------------------------------------------------------
\* Session store (pure part of the three utilities; the callers hold
\* sessions_lock around them)
\* ------------------------------------------------------------------------
GetStale(s, session_id) ==
    IF DOMAIN s = {} THEN <<NoneVS, NoneTime>>
    ELSE LET k == IF session_id \in DOMAIN s THEN session_id
                  ELSE CHOOSE x \in DOMAIN s : TRUE
         IN  <<s[k].vectorstore, s[k].upload_time>>

\* line 61: session_id in sessions raises TypeError for a value that cannot
\* be hashed
LookupRaises(session_id) == session_id = Unhashable

get_session_vectorstore(s, session_id) ==
    IF session_id \in DOMAIN s
    THEN <<s[session_id].vectorstore, s[session_id].upload_time>>
    ELSE <<NoneVS, NoneTime>>

SetKeepTime(s, session_id, vectorstore, upload_time) ==
    [k \in DOMAIN s \cup {session_id} |->
        IF k = session_id
        THEN [vectorstore |-> vectorstore,
              upload_time |-> IF k \in DOMAIN s THEN s[k].upload_time
                              ELSE upload_time]
        ELSE s[k]]

SetMerge(s, session_id, vectorstore, upload_time) ==
    [k \in DOMAIN s \cup {session_id} |->
        IF k = session_id
        THEN [vectorstore |->
                 [id |-> vectorstore.id,
                  chunks |-> vectorstore.chunks \cup
                             (IF k \in DOMAIN s THEN s[k].vectorstore.chunks
                              ELSE {})],
              upload_time |-> upload_time]
        ELSE s[k]]

SetDropsOthers(s, session_id, vectorstore, upload_time) ==
    [k \in {session_id} |->
        [vectorstore |-> vectorstore, upload_time |-> upload_time]]

set_session_vectorstore(s, session_id, vectorstore, upload_time) ==
    [k \in DOMAIN s \cup {session_id} |->
        IF k = session_id
        THEN [vectorstore |-> vectorstore, upload_time |-> upload_time]
        ELSE s[k]]

ClearAll(s, session_id) == << >>

ClearNothing(s, session_id) == s

clear_session(s, session_id) ==
    [k \in DOMAIN s \ {session_id} |-> s[k]]


\* ------------------------------------------------------------------------
\* sessions_lock = threading.RLock()
\* ------------------------------------------------------------------------
FreeLock == [owner |-> "free", depth |-> 0]

CanAcquireAlways(l, t) == TRUE

CanAcquirePlainLock(l, t) == l.owner = "free"

\* an RLock is acquired by a thread when it is free or already owned by it
CanAcquire(l, t) == l.owner \in {"free", t}

Acquire(l, t) == [owner |-> t, depth |-> l.depth + 1]

Release(l) ==
    IF l.depth <= 1 THEN FreeLock ELSE [l EXCEPT !.depth = l.depth - 1]

\* ------------------------------------------------------------------------
\* External collaborators
\* ------------------------------------------------------------------------
\* k of similarity_search in ask, summarize and compare
AskK == 4
SummarizeK == 6
CompareK == 3

\* vectorstore.similarity_search(query, k): at most k chunks of that index
\* (an empty list on a degenerate index); the call can also raise
SimilaritySearch(vectorstore, k) ==
    {d \in SUBSET vectorstore.chunks : Cardinality(d) <= k}

\* ------------------------------------------------------------------------
\* normalize_spaced_text and normalize_answer (lines 98-132), on texts as
\* sequences of characters
\* ------------------------------------------------------------------------
LowerCase == <<"a", "b", "c", "d", "e", "f", "g", "h", "i", "j", "k", "l", "m", "n", "o", "p", "q", "r", "s", "t", "u", "v", "w", "x", "y", "z">>
UpperCase == <<"A", "B", "C", "D", "E", "F", "G", "H", "I", "J", "K", "L", "M", "N", "O", "P", "Q", "R", "S", "T", "U", "V", "W", "X", "Y", "Z">>

\* the characters of a text are those a string of this module can hold: the
\* ones from U+0000 to U+00FF

\* [A-Za-z]
IsAlpha(c) == \E i \in 1..26 : c = LowerCase[i] \/ c = UpperCase[i]

\* the letters and numbers beyond U+007F that \w of a str pattern matches
WordBeyondAscii ==
    {"ª", "²", "³", "µ", "¹", "º", "¼", "½", "¾", "À", "Á", "Â",
     "Ã", "Ä", "Å", "Æ", "Ç", "È", "É", "Ê", "Ë", "Ì", "Í", "Î",
     "Ï", "Ð", "Ñ", "Ò", "Ó", "Ô", "Õ", "Ö", "Ø", "Ù", "Ú", "Û",
     "Ü", "Ý", "Þ", "ß", "à", "á", "â", "ã", "ä", "å", "æ", "ç",
     "è", "é", "ê", "ë", "ì", "í", "î", "ï", "ð", "ñ", "ò", "ó",
     "ô", "õ", "ö", "ø", "ù", "ú", "û", "ü", "ý", "þ", "ÿ"}

\* \w
IsWord(c) ==
    \/ IsAlpha(c)
    \/ c \in {"0", "1", "2", "3", "4", "5", "6", "7", "8", "9", "_"}
    \/ c \in WordBeyondAscii

\* re.IGNORECASE compares letters without their case (A-Z are the only
\* characters up to U+00FF that match a-z this way)
ToLower(c) ==
    IF \E i \in 1..26 : c = UpperCase[i]
    THEN LowerCase[CHOOSE i \in 1..26 : c = UpperCase[i]]
    ELSE c

\* \s of a str pattern, and what str.strip() removes: tab, line feed,
\* vertical tab, form feed, carriage return, U+001C to U+001F, space,
\* U+0085 and U+00A0
Whitespace ==
    {"\t", "\n", "", "\f", "\r", "",
     "", "", "", " ", "", " "}

\* the pattern \b(?:[A-Za-z] ){2,}[A-Za-z]\b matches at position i with n
\* repetitions of the group
SpacedMatch(text, i, n) ==
    /\ i = 1 \/ ~IsWord(text[i - 1])
    /\ i + 2 * n <= Len(text)
    /\ \A j \in 0..(n - 1) : IsAlpha(text[i + 2 * j]) /\ text[i + 2 * j + 1] = " "
    /\ IsAlpha(text[i + 2 * n])
    /\ i + 2 * n = Len(text) \/ ~IsWord(text[i + 2 * n + 1])

\* re.sub from position i on: the leftmost match, with as many repetitions
\* as the pattern can take, has its spaces removed; the scan goes on behind it
RECURSIVE SpacedFrom(_, _)
SpacedFrom(text, i) ==
    IF i > Len(text) THEN << >>
    ELSE LET ns == {n \in 2..Len(text) : SpacedMatch(text, i, n)} IN
         IF ns = {} THEN <<text[i]>> \o SpacedFrom(text, i + 1)
         ELSE LET n == CHOOSE m \in ns : \A o \in ns : o <= m IN
              [j \in 1..(n + 1) |-> text[i + 2 * (j - 1)]]
                  \o SpacedFrom(text, i + 2 * n + 1)

\* lines 98-115
normalize_spaced_text(text) == SpacedFrom(text, 1)

\* text starts with label, whatever the case of its letters
HasLabel(text, label) ==
    /\ Len(text) >= Len(label)
    /\ \A i \in 1..Len(label) : ToLower(text[i]) = label[i]

\* where the match of ^(Answer[^:]*:|Context:|Question:) ends; 0 without one
LabelEnd(text) ==
    IF HasLabel(text, <<"a", "n", "s", "w", "e", "r">>) /\ \E i \in 1..Len(text) : text[i] = ":"
    THEN CHOOSE i \in 1..Len(text) :
             text[i] = ":" /\ \A j \in 1..(i - 1) : text[j] # ":"
    ELSE IF HasLabel(text, <<"c", "o", "n", "t", "e", "x", "t", ":">>) THEN 8
    ELSE IF HasLabel(text, <<"q", "u", "e", "s", "t", "i", "o", "n", ":">>) THEN 9
    ELSE 0

\* str.lstrip(), str.rstrip() and str.strip()
RECURSIVE LStrip(_)
LStrip(q) ==
    IF q # << >> /\ Head(q) \in Whitespace THEN LStrip(Tail(q)) ELSE q

RECURSIVE RStrip(_)
RStrip(q) ==
    IF q # << >> /\ q[Len(q)] \in Whitespace
    THEN RStrip(SubSeq(q, 1, Len(q) - 1)) ELSE q

Strip(q) == RStrip(LStrip(q))

\* line 128: one label at the start of the text, and the whitespace behind it
StripLabel(text) ==
    IF LabelEnd(text) = 0 THEN text
    ELSE LStrip(SubSeq(text, LabelEnd(text) + 1, Len(text)))

\* the length of the run of characters of set cs that starts at position i
RECURSIVE RunLen(_, _, _)
RunLen(text, i, cs) ==
    IF i <= Len(text) /\ text[i] \in cs THEN 1 + RunLen(text, i + 1, cs) ELSE 0

\* re.sub of a run of at least least characters of cs by the text by
RECURSIVE CollapseFrom(_, _, _, _, _)
CollapseFrom(text, i, cs, least, by) ==
    IF i > Len(text) THEN << >>
    ELSE LET r == RunLen(text, i, cs) IN
         IF r >= least THEN by \o CollapseFrom(text, i + r, cs, least, by)
         ELSE <<text[i]>> \o CollapseFrom(text, i + 1, cs, least, by)

\* lines 118-132
normalize_answer(text) ==
    LET spaced == normalize_spaced_text(text)
        unlabelled == StripLabel(spaced)
        blanks == CollapseFrom(unlabelled, 1, {" ", "\t"}, 2, <<" ">>)
        lines == CollapseFrom(blanks, 1, {"\n"}, 3, <<"\n", "\n">>)
    IN  Strip(lines)

\* ------------------------------------------------------------------------
\* The conversation context of ask_question (lines 241-249)
\* ------------------------------------------------------------------------
\* the 5 of history[-5:]
HistoryTurns == 5

AllTurns(history) == history

\* line 245: history[-5:]
LastTurns(history) ==
    IF Len(history) <= HistoryTurns THEN history
    ELSE SubSeq(history, Len(history) - HistoryTurns + 1, Len(history))

\* line 249: f"{role}: {content}\n", as the pieces of the text
RenderTurn(role, content) == <<role, ": ", content, "\n">>

\* lines 245-249 over the entries msgs: the lines of the entries that have a
\* role and a content, one behind the other
RECURSIVE ContextOf(_)
ContextOf(msgs) ==
    IF msgs = << >> THEN << >>
    ELSE LET msg == Head(msgs) IN
         (IF msg.role # "" /\ msg.content # ""
          THEN RenderTurn(msg.role, msg.content) ELSE << >>)
             \o ContextOf(Tail(msgs))

\* msg.get raises AttributeError on an entry that is no dict
HistoryRaises(history) ==
    \E i \in DOMAIN LastTurns(history) : ~LastTurns(history)[i].dict

\* lines 241-249
conversation_context(history) == ContextOf(LastTurns(history))

\* ------------------------------------------------------------------------
\* State
\* ------------------------------------------------------------------------
VARIABLES
    sessions,       \* the dict sessions: session_id -> {vectorstore, upload_time}
    sessions_lock,  \* owner and recursion depth of the RLock
    clock,          \* what datetime.now() returns next
    pc,             \* where each worker is in its handler
    req,            \* the request each worker handles
    loc,            \* the handler's local variables
    resp,           \* the JSON result the handler returned
    overdue,        \* the worker's generate_response call has been outstanding
                    \* for longer than a generation timeout
    superseded,     \* history: the indexes a later process-pdf replaced
    gap,            \* history: keys whose reset has returned, with no process-pdf
                    \* installed under them since the return
    cleared,        \* history: keys whose entry a reset has cleared, with no
                    \* process-pdf installed under them since
    obs,            \* history: what each request saw and did
    arrivals,       \* the requests that will still arrive (Unbounded: any
                    \* number)
    answer,         \* a generated text and what normalize_answer makes of it
    convo           \* a supplied history and the conversation context built
                    \* from it

\* the variables of the service
svars == <<sessions, sessions_lock, clock, pc, req, loc, resp, overdue,
           superseded, gap, cleared, obs, arrivals>>

vars == <<sessions, sessions_lock, clock, pc, req, loc, resp, overdue,
          superseded, gap, cleared, obs, arrivals, answer, convo>>

\* requests arrive for as long as the service runs
Unbounded == -1

NoReq == [op |-> "none", session_id |-> "default", session_id_2 |-> "default",
          question |-> << >>, history |-> << >>, filePath |-> "missing.pdf"]

NoLoc == [vectorstore |-> NoneVS, upload_time |-> NoneTime,
          vectorstore_2 |-> NoneVS, context |-> {}, context_2 |-> {}]

NoResp == [field |-> "", text |-> "", session_id |-> "", upload_time |-> NoneTime,
           pdf_loaded |-> FALSE, context |-> {}, context_2 |-> {}]

NoObs == [found |-> << >>, absent |-> FALSE, supAtStart |-> {}, startedInGap |-> FALSE,
          lookupInGap |-> FALSE, lookupCleared |-> FALSE, searched |-> {}, generated |-> FALSE,
          outcome |-> ""]

\* no text is being normalized, no history is being rendered
NoAnswer == [raw |-> << >>, out |-> << >>, once |-> << >>, n |-> 0]
NoConvo == [history |-> << >>, context |-> << >>, raised |-> FALSE, built |-> FALSE]

Result(field, text) == [NoResp EXCEPT !.field = field, !.text = text]

InitService ==
    /\ sessions = << >>
    /\ sessions_lock = FreeLock
    /\ clock = 1
    /\ pc = [t \in Threads |-> "idle"]
    /\ req = [t \in Threads |-> NoReq]
    /\ loc = [t \in Threads |-> NoLoc]
    /\ resp = [t \in Threads |-> NoResp]
    /\ overdue = [t \in Threads |-> FALSE]
    /\ superseded = {}
    /\ gap = {}
    /\ cleared = {}
    /\ obs = [t \in Threads |-> NoObs]
    /\ arrivals = Unbounded

Init ==
    /\ InitService
    /\ answer = NoAnswer
    /\ convo = NoConvo

\* history: the index stored under key k (0 when there is no entry)
StoredId(k) ==
    IF k \in DOMAIN sessions THEN sessions[k].vectorstore.id ELSE 0

\* process-pdf requests that will still read the clock
PendingIngests ==
    Cardinality({u \in Threads : pc[u] = "pp_load"
                                 /\ LoadOutcome(req[u].filePath) = "ok"})

\* ------------------------------------------------------------------------
\* A worker picks up a request, and hands back its result
\* ------------------------------------------------------------------------
Begin(t, r) ==
    /\ pc[t] = "idle"
    /\ r.op \in AllOps
    /\ arrivals # 0
    /\ arrivals' = IF arrivals = Unbounded THEN Unbounded ELSE arrivals - 1
    /\ req' = [req EXCEPT ![t] = r]
    /\ obs' = [obs EXCEPT ![t] = [NoObs EXCEPT
                  !.supAtStart = IF r.op \in {"ask", "summarize"}
                                 THEN superseded ELSE {},
                  !.startedInGap = r.op \in {"ask", "summarize"}
                                   /\ r.session_id \in gap]]
    /\ UNCHANGED <<sessions, sessions_lock, clock, loc, resp, overdue,
                   superseded, gap, cleared,
                   answer, convo>>

StartProcessPdf(t) ==
    \E h \in Headers, f \in Files :
        /\ LoadOutcome(f) = "ok" => clock + PendingIngests <= MaxIngest
        /\ Begin(t, [NoReq EXCEPT !.op = "process-pdf",
                                  !.session_id = SessionIdOf(h), !.filePath = f])
        /\ pc' = [pc EXCEPT ![t] = "pp_load"]

StartAsk(t) ==
    \E h \in Headers, q \in Questions, past \in AskHistories :
        /\ Begin(t, [NoReq EXCEPT !.op = "ask", !.session_id = SessionIdOf(h),
                                  !.question = q, !.history = past])
        /\ pc' = [pc EXCEPT ![t] = "get"]

StartSummarize(t) ==
    \E h \in Headers :
        /\ Begin(t, [NoReq EXCEPT !.op = "summarize", !.session_id = SessionIdOf(h)])
        /\ pc' = [pc EXCEPT ![t] = "get"]

\* lines 334-336: the two keys come from the body, "default" when missing
StartCompare(t) ==
    \E h1 \in BodyIds, h2 \in BodyIds :
        /\ Begin(t, [NoReq EXCEPT !.op = "compare", !.session_id = SessionIdOf(h1),
                                  !.session_id_2 = SessionIdOf(h2)])
        /\ pc' = [pc EXCEPT ![t] = "cmp_get1"]

StartReset(t) ==
    \E h \in Headers :
        /\ Begin(t, [NoReq EXCEPT !.op = "reset", !.session_id = SessionIdOf(h)])
        /\ pc' = [pc EXCEPT ![t] = "reset_lock"]

StartStatus(t) ==
    \E h \in Headers :
        /\ Begin(t, [NoReq EXCEPT !.op = "status", !.session_id = SessionIdOf(h)])
        /\ pc' = [pc EXCEPT ![t] = "status"]

\* the handler returns result r; its local variables are gone
Return(t, r) ==
    /\ pc' = [pc EXCEPT ![t] = "done"]
    /\ resp' = [resp EXCEPT ![t] = r]
    /\ loc' = [loc EXCEPT ![t] = NoLoc]

\* the result has been sent; the worker is free for the next request
Finish(t) ==
    /\ pc[t] = "done"
    /\ pc' = [pc EXCEPT ![t] = "idle"]
    /\ req' = [req EXCEPT ![t] = NoReq]
    /\ resp' = [resp EXCEPT ![t] = NoResp]
    /\ obs' = [obs EXCEPT ![t] = NoObs]
    /\ UNCHANGED <<sessions, sessions_lock, clock, loc, overdue, superseded, gap, cleared,
                   arrivals, answer, convo>>

\* ------------------------------------------------------------------------
\* POST /process-pdf
\* ------------------------------------------------------------------------
\* lines 184-208: load, normalize and split, read the header and the clock,
\* and build the index, all outside the lock; any exception gives the result
\* of lines 218-222
PPLoad(t) ==
    /\ pc[t] = "pp_load"
    /\ LET out == LoadOutcome(req[t].filePath) IN
       \/ /\ out = "raise"
          /\ Return(t, Result("error", "PDF processing failed"))
          /\ UNCHANGED clock
       \/ /\ out = "nopages"
          /\ Return(t, Result("error", "PDF file is empty or unreadable. Please check your file."))
          /\ UNCHANGED clock
       \/ /\ out = "nochunks"
          /\ Return(t, Result("error", "No text chunks generated from the PDF. Please check your file."))
          /\ UNCHANGED clock
       \/ /\ out = "ok"
          /\ loc' = [loc EXCEPT ![t].upload_time = clock,
                                ![t].vectorstore =
                                    FromDocuments(ChunksOf(req[t].filePath, clock), clock)]
          /\ clock' = clock + 1
          /\ pc' = [pc EXCEPT ![t] = "pp_set"]
          /\ UNCHANGED resp
       \/ \* FAISS.from_documents raises; the clock value read is dropped
          /\ out = "ok"
          /\ Return(t, Result("error", "PDF processing failed"))
          /\ UNCHANGED clock
    /\ UNCHANGED <<sessions, sessions_lock, req, overdue, superseded, gap, cleared, obs,
                   arrivals, answer, convo>>

\* lines 209-216 with set_session_vectorstore (lines 67-83) under the lock
PPSet(t) ==
    /\ pc[t] = "pp_set"
    /\ CanAcquire(sessions_lock, t)
    /\ sessions_lock' = Release(Acquire(sessions_lock, t))
    /\ sessions' = set_session_vectorstore(sessions, req[t].session_id,
                                           loc[t].vectorstore, loc[t].upload_time)
    /\ Return(t, [Result("message", "PDF processed successfully") EXCEPT
                     !.session_id = req[t].session_id,
                     !.upload_time = loc[t].upload_time])
    /\ superseded' = superseded \cup ({StoredId(req[t].session_id)} \ {0})
    /\ gap' = gap \ {req[t].session_id}
    /\ cleared' = cleared \ {req[t].session_id}
    /\ UNCHANGED <<clock, req, overdue, obs,
                   arrivals, answer, convo>>

\* ------------------------------------------------------------------------
\* POST /reset
\* ------------------------------------------------------------------------
\* line 381: with sessions_lock
ResetLock(t) ==
    /\ pc[t] = "reset_lock"
    /\ CanAcquire(sessions_lock, t)
    /\ sessions_lock' = Acquire(sessions_lock, t)
    /\ pc' = [pc EXCEPT ![t] = "reset_clear"]
    /\ UNCHANGED <<sessions, clock, req, loc, resp, overdue, superseded, gap, cleared, obs,
                   arrivals, answer, convo>>

\* line 382: clear_session (lines 86-95) takes the lock again, deletes the
\* entry if there is one, and gives the inner hold back
ResetClear(t) ==
    /\ pc[t] = "reset_clear"
    /\ CanAcquire(sessions_lock, t)
    /\ sessions_lock' = Release(Acquire(sessions_lock, t))
    /\ sessions' = clear_session(sessions, req[t].session_id)
    /\ obs' = [obs EXCEPT ![t].absent = req[t].session_id \notin DOMAIN sessions]
    /\ cleared' = cleared \cup {req[t].session_id}
    /\ pc' = [pc EXCEPT ![t] = "reset_release"]
    /\ UNCHANGED <<clock, req, loc, resp, overdue, superseded, gap,
                   arrivals, answer, convo>>

\* lines 381-382: the with block of reset_session ends and gives the lock back
ResetRelease(t) ==
    /\ pc[t] = "reset_release"
    /\ sessions_lock.owner = t
    /\ sessions_lock' = Release(sessions_lock)
    /\ pc' = [pc EXCEPT ![t] = "reset_return"]
    /\ UNCHANGED <<sessions, clock, req, loc, resp, overdue, superseded, gap, cleared,
                   obs, arrivals, answer, convo>>

\* lines 384-387: reset_session returns, no longer holding the lock
ResetReturn(t) ==
    /\ pc[t] = "reset_return"
    /\ Return(t, [Result("message", "Session cleared successfully") EXCEPT
                     !.session_id = req[t].session_id])
    /\ gap' = gap \cup {req[t].session_id}
    /\ UNCHANGED <<sessions, sessions_lock, clock, req, overdue, superseded, cleared,
                   obs, arrivals, answer, convo>>

\* ------------------------------------------------------------------------
\* GET /status
\* ------------------------------------------------------------------------
StoredUploadTimeOfDefault(s, session_id) ==
    IF "default" \in DOMAIN s THEN s["default"].upload_time
    ELSE s[session_id].upload_time

\* line 403: sessions[session_id].get("upload_time")
StoredUploadTime(s, session_id) == s[session_id].upload_time

\* lines 396-409, under the lock
StatusGet(t) ==
    /\ pc[t] = "status"
    /\ CanAcquire(sessions_lock, t)
    /\ sessions_lock' = Release(Acquire(sessions_lock, t))
    /\ Return(t, IF req[t].session_id \in DOMAIN sessions
                 THEN [Result("status", "") EXCEPT
                          !.pdf_loaded = TRUE,
                          !.session_id = req[t].session_id,
                          !.upload_time =
                              StoredUploadTime(sessions, req[t].session_id)]
                 ELSE [Result("status", "") EXCEPT
                          !.pdf_loaded = FALSE,
                          !.session_id = req[t].session_id,
                          !.upload_time = NoneTime])
    /\ obs' = [obs EXCEPT ![t].absent = req[t].session_id \notin DOMAIN sessions,
                          ![t].found = Append(@, StoredId(req[t].session_id)),
                          ![t].lookupInGap = req[t].session_id \in gap,
                          ![t].lookupCleared = req[t].session_id \in cleared]
    /\ UNCHANGED <<sessions, clock, req, overdue, superseded, gap, cleared,
                   arrivals, answer, convo>>

\* ------------------------------------------------------------------------
\* POST /ask and POST /summarize (the two handlers have the same shape)
\* ------------------------------------------------------------------------
FieldOf(op) == IF op = "ask" THEN "answer" ELSE "summary"

KOf(op) == IF op = "ask" THEN AskK ELSE SummarizeK

NoContextText(op) ==
    IF op = "ask" THEN "No relevant context found in the current PDF."
    ELSE "No document context available to summarize."

ErrorText(op) ==
    IF op = "ask" THEN "Error processing question" ELSE "Error summarizing PDF"

Propagates(op) == Result("fault", "Internal Server Error")

\* the except clauses of the three query handlers (lines 281-282, 323-324,
\* 369-370): the exception becomes the handler's JSON result
OnException(op) ==
    IF op = "compare" THEN Result("error", "Error comparing PDFs")
    ELSE Result(FieldOf(op), ErrorText(op))

NeverEmpty(docs) == FALSE

\* lines 253 / 301: not docs
NotDocs(docs) == docs = {}

\* lines 231-235 / 291-295: resolve the session's index under the lock (lines
\* 55-64), then test it for None outside the lock
QueryGet(t, op) ==
    /\ pc[t] = "get"
    /\ req[t].op = op
    /\ CanAcquire(sessions_lock, t)
    /\ sessions_lock' = Release(Acquire(sessions_lock, t))
    /\ LET r == get_session_vectorstore(sessions, req[t].session_id) IN
       IF r[1] = NoneVS
       THEN Return(t, Result(FieldOf(op), "Please upload a PDF first!"))
       ELSE /\ loc' = [loc EXCEPT ![t].vectorstore = r[1], ![t].upload_time = r[2]]
            /\ pc' = [pc EXCEPT ![t] = "lock"]
            /\ UNCHANGED resp
    /\ obs' = [obs EXCEPT ![t].found = Append(@, StoredId(req[t].session_id)),
                          ![t].lookupInGap = req[t].session_id \in gap,
                          ![t].lookupCleared = req[t].session_id \in cleared]
    /\ UNCHANGED <<sessions, clock, req, overdue, superseded, gap, cleared,
                   arrivals, answer, convo>>

\* lines 239 / 299: with sessions_lock
QueryLock(t, op) ==
    /\ pc[t] = "lock"
    /\ req[t].op = op
    /\ CanAcquire(sessions_lock, t)
    /\ sessions_lock' = Acquire(sessions_lock, t)
    /\ pc' = [pc EXCEPT ![t] = "search"]
    /\ UNCHANGED <<sessions, clock, req, loc, resp, overdue, superseded, gap, cleared, obs,
                   arrivals, answer, convo>>

\* lines 244-249: the history loop of ask_question raises on an entry that
\* is not a dict; summarize_pdf reads no history
LoopRaises(t, op) == op = "ask" /\ HistoryRaises(req[t].history)

\* lines 240-277 / 300-319: the history loop of ask_question, the similarity
\* search on the resolved index, the empty-result return, the prompt, and the
\* call of generate_response
QuerySearch(t, op) ==
    /\ pc[t] = "search"
    /\ req[t].op = op
    /\ sessions_lock.owner = t
    /\ \/ \* the history loop raises before the search: lines 281-282
          /\ LoopRaises(t, op)
          /\ sessions_lock' = Release(sessions_lock)
          /\ Return(t, OnException(op))
          /\ obs' = [obs EXCEPT ![t].outcome = "history_raised"]
       \/ \* similarity_search raises: lines 281-282 / 323-324
          /\ ~LoopRaises(t, op)
          /\ sessions_lock' = Release(sessions_lock)
          /\ Return(t, OnException(op))
          /\ obs' = [obs EXCEPT ![t].searched = @ \cup {loc[t].vectorstore.id},
                                ![t].outcome = "search_raised"]
       \/ \E docs \in SimilaritySearch(loc[t].vectorstore, KOf(op)) :
            /\ ~LoopRaises(t, op)
            /\ IF NotDocs(docs)
               THEN /\ sessions_lock' = Release(sessions_lock)
                    /\ Return(t, Result(FieldOf(op), NoContextText(op)))
                    /\ obs' = [obs EXCEPT
                                  ![t].searched = @ \cup {loc[t].vectorstore.id},
                                  ![t].outcome = IF docs = {} THEN "empty"
                                                 ELSE "docs"]
               ELSE /\ loc' = [loc EXCEPT ![t].context = docs]
                    /\ pc' = [pc EXCEPT ![t] = "gen"]
                    /\ obs' = [obs EXCEPT
                                  ![t].searched = @ \cup {loc[t].vectorstore.id},
                                  ![t].generated = TRUE,
                                  ![t].outcome = IF docs = {} THEN "empty"
                                                 ELSE "docs"]
                    /\ UNCHANGED <<sessions_lock, resp>>
    /\ UNCHANGED <<sessions, clock, req, overdue, superseded, gap, cleared,
                   arrivals, answer, convo>>

\* lines 144-155, 278-279 / 320-321: the backend answers; the text is
\* normalized and returned, and the with block is left
QueryGenReturn(t, op) ==
    /\ pc[t] = "gen"
    /\ req[t].op = op
    /\ sessions_lock' = Release(sessions_lock)
    /\ Return(t, [Result(FieldOf(op), "generated") EXCEPT !.context = loc[t].context])
    /\ overdue' = [overdue EXCEPT ![t] = FALSE]
    /\ UNCHANGED <<sessions, clock, req, superseded, gap, cleared, obs,
                   arrivals, answer, convo>>

\* lines 281-282 / 323-324: the backend call raises
QueryGenRaise(t, op) ==
    /\ pc[t] = "gen"
    /\ req[t].op = op
    /\ sessions_lock' = Release(sessions_lock)
    /\ Return(t, OnException(op))
    /\ overdue' = [overdue EXCEPT ![t] = FALSE]
    /\ obs' = [obs EXCEPT ![t].outcome = "gen_raised"]
    /\ UNCHANGED <<sessions, clock, req, superseded, gap, cleared,
                   arrivals, answer, convo>>

AskGet(t) == QueryGet(t, "ask")
AskLock(t) == QueryLock(t, "ask")
AskSearch(t) == QuerySearch(t, "ask")
AskGenReturn(t) == QueryGenReturn(t, "ask")
AskGenRaise(t) == QueryGenRaise(t, "ask")

SummarizeGet(t) == QueryGet(t, "summarize")
SummarizeLock(t) == QueryLock(t, "summarize")
SummarizeSearch(t) == QuerySearch(t, "summarize")
SummarizeGenReturn(t) == QueryGenReturn(t, "summarize")
SummarizeGenRaise(t) == QueryGenRaise(t, "summarize")

\* generate_response (lines 144-154) has not returned yet: the caller waits
\* in groq_client.chat.completions.create for as long as the backend takes,
\* and the time of a generation timeout passes
GenTick(t) ==
    /\ pc[t] = "gen"
    /\ ~overdue[t]
    /\ overdue' = [overdue EXCEPT ![t] = TRUE]
    /\ UNCHANGED <<sessions, sessions_lock, clock, pc, req, loc, resp,
                   superseded, gap, cleared, obs,
                   arrivals, answer, convo>>

\* ------------------------------------------------------------------------
\* POST /compare
\* ------------------------------------------------------------------------
MissingBoth(vectorstore_1, vectorstore_2) ==
    vectorstore_1 = NoneVS /\ vectorstore_2 = NoneVS

\* line 341
MissingEither(vectorstore_1, vectorstore_2) ==
    vectorstore_1 = NoneVS \/ vectorstore_2 = NoneVS

\* lines 338-339 are outside the try of line 344: an exception raised by a
\* lookup leaves compare_pdfs, and the request ends without a result of the
\* handler
Unhandled == Result("fault", "Internal Server Error")

\* line 338; the with block of line 60 gives the lock back when line 61
\* raises
CompareGet1(t) ==
    /\ pc[t] = "cmp_get1"
    /\ CanAcquire(sessions_lock, t)
    /\ sessions_lock' = Release(Acquire(sessions_lock, t))
    /\ IF LookupRaises(req[t].session_id)
       THEN /\ Return(t, Unhandled)
            /\ obs' = [obs EXCEPT ![t].outcome = "lookup_raised"]
       ELSE /\ loc' = [loc EXCEPT ![t].vectorstore =
                          get_session_vectorstore(sessions, req[t].session_id)[1]]
            /\ obs' = [obs EXCEPT ![t].found = Append(@, StoredId(req[t].session_id))]
            /\ pc' = [pc EXCEPT ![t] = "cmp_get2"]
            /\ UNCHANGED resp
    /\ UNCHANGED <<sessions, clock, req, overdue, superseded, gap, cleared,
                   arrivals, answer, convo>>

\* lines 339-342
CompareGet2(t) ==
    /\ pc[t] = "cmp_get2"
    /\ CanAcquire(sessions_lock, t)
    /\ sessions_lock' = Release(Acquire(sessions_lock, t))
    /\ IF LookupRaises(req[t].session_id_2)
       THEN /\ Return(t, Unhandled)
            /\ obs' = [obs EXCEPT ![t].outcome = "lookup_raised"]
       ELSE /\ LET v2 == get_session_vectorstore(sessions, req[t].session_id_2)[1] IN
               IF MissingEither(loc[t].vectorstore, v2)
               THEN Return(t, Result("error",
                                     "One or both sessions do not have a PDF loaded"))
               ELSE /\ loc' = [loc EXCEPT ![t].vectorstore_2 = v2]
                    /\ pc' = [pc EXCEPT ![t] = "cmp_lock"]
                    /\ UNCHANGED resp
            /\ obs' = [obs EXCEPT ![t].found = Append(@, StoredId(req[t].session_id_2))]
    /\ UNCHANGED <<sessions, clock, req, overdue, superseded, gap, cleared,
                   arrivals, answer, convo>>

\* line 345
CompareLock(t) ==
    /\ pc[t] = "cmp_lock"
    /\ CanAcquire(sessions_lock, t)
    /\ sessions_lock' = Acquire(sessions_lock, t)
    /\ pc' = [pc EXCEPT ![t] = "cmp_search"]
    /\ UNCHANGED <<sessions, clock, req, loc, resp, overdue, superseded, gap, cleared, obs,
                   arrivals, answer, convo>>

\* lines 346-366: both searches, the prompt, the call of generate_response
CompareSearch(t) ==
    /\ pc[t] = "cmp_search"
    /\ sessions_lock.owner = t
    /\ \/ \* the first search raises: line 370
          /\ sessions_lock' = Release(sessions_lock)
          /\ Return(t, OnException("compare"))
          /\ obs' = [obs EXCEPT ![t].searched = @ \cup {loc[t].vectorstore.id},
                                ![t].outcome = "search_raised"]
       \/ \* the second search raises: line 370
          /\ sessions_lock' = Release(sessions_lock)
          /\ Return(t, OnException("compare"))
          /\ obs' = [obs EXCEPT ![t].searched =
                        @ \cup {loc[t].vectorstore.id, loc[t].vectorstore_2.id},
                                ![t].outcome = "search_raised"]
       \/ \E docs_1 \in SimilaritySearch(loc[t].vectorstore, CompareK),
             docs_2 \in SimilaritySearch(loc[t].vectorstore_2, CompareK) :
            /\ loc' = [loc EXCEPT ![t].context = docs_1, ![t].context_2 = docs_2]
            /\ pc' = [pc EXCEPT ![t] = "gen"]
            /\ obs' = [obs EXCEPT ![t].searched =
                          @ \cup {loc[t].vectorstore.id, loc[t].vectorstore_2.id},
                                  ![t].generated = TRUE]
            /\ UNCHANGED <<sessions_lock, resp>>
    /\ UNCHANGED <<sessions, clock, req, overdue, superseded, gap, cleared,
                   arrivals, answer, convo>>

\* lines 366-367
CompareGenReturn(t) ==
    /\ pc[t] = "gen"
    /\ req[t].op = "compare"
    /\ sessions_lock' = Release(sessions_lock)
    /\ Return(t, [Result("comparison", "generated") EXCEPT
                     !.context = loc[t].context, !.context_2 = loc[t].context_2])
    /\ overdue' = [overdue EXCEPT ![t] = FALSE]
    /\ UNCHANGED <<sessions, clock, req, superseded, gap, cleared, obs,
                   arrivals, answer, convo>>

\* lines 369-370
CompareGenRaise(t) ==
    /\ pc[t] = "gen"
    /\ req[t].op = "compare"
    /\ sessions_lock' = Release(sessions_lock)
    /\ Return(t, OnException("compare"))
    /\ overdue' = [overdue EXCEPT ![t] = FALSE]
    /\ obs' = [obs EXCEPT ![t].outcome = "gen_raised"]
    /\ UNCHANGED <<sessions, clock, req, superseded, gap, cleared,
                   arrivals, answer, convo>>

\* ------------------------------------------------------------------------
\* Specification
\* ------------------------------------------------------------------------
Next ==
    \E t \in Threads :
        \/ StartProcessPdf(t) \/ StartAsk(t) \/ StartSummarize(t)
        \/ StartCompare(t) \/ StartReset(t) \/ StartStatus(t)
        \/ PPLoad(t) \/ PPSet(t)
        \/ AskGet(t) \/ AskLock(t) \/ AskSearch(t)
        \/ AskGenReturn(t) \/ AskGenRaise(t)
        \/ SummarizeGet(t) \/ SummarizeLock(t) \/ SummarizeSearch(t)
        \/ SummarizeGenReturn(t) \/ SummarizeGenRaise(t)
        \/ GenTick(t)
        \/ CompareGet1(t) \/ CompareGet2(t) \/ CompareLock(t) \/ CompareSearch(t)
        \/ CompareGenReturn(t) \/ CompareGenRaise(t)
        \/ ResetLock(t) \/ ResetClear(t) \/ ResetRelease(t) \/ ResetReturn(t)
        \/ StatusGet(t)
        \/ Finish(t)

Spec == Init /\ [][Next]_vars

\* the steps of the handler that thread t runs, from its first statement to
\* its return
HandlerStep(t) ==
    \/ PPLoad(t) \/ PPSet(t)
    \/ AskGet(t) \/ AskLock(t) \/ AskSearch(t)
    \/ AskGenReturn(t) \/ AskGenRaise(t)
    \/ SummarizeGet(t) \/ SummarizeLock(t) \/ SummarizeSearch(t)
    \/ SummarizeGenReturn(t) \/ SummarizeGenRaise(t)
    \/ CompareGet1(t) \/ CompareGet2(t) \/ CompareLock(t) \/ CompareSearch(t)
    \/ CompareGenReturn(t) \/ CompareGenRaise(t)
    \/ ResetLock(t) \/ ResetClear(t) \/ ResetRelease(t) \/ ResetReturn(t)
    \/ StatusGet(t)

\* every thread keeps running, every search and generation call comes back,
\* and the lock is fair: a thread whose next step is possible again and
\* again (the lock is free again and again) takes it
Fairness == \A t \in Threads : SF_vars(HandlerStep(t))

\* the fair runs start with the workers idle and the store empty or holding
\* the index of one earlier upload, and MaxArrivals requests arrive; a worker
\* that has served a request serves the next one
InitFair ==
    /\ sessions \in {<< >>,
                      set_session_vectorstore(<< >>, "default",
                          FromDocuments(ChunksOf("doc.pdf", 1), 1), 1)}
    /\ clock = Cardinality(DOMAIN sessions) + 1
    /\ sessions_lock = FreeLock
    /\ pc = [t \in Threads |-> "idle"]
    /\ req = [t \in Threads |-> NoReq]
    /\ loc = [t \in Threads |-> NoLoc]
    /\ resp = [t \in Threads |-> NoResp]
    /\ overdue = [t \in Threads |-> FALSE]
    /\ superseded = {}
    /\ gap = {}
    /\ cleared = {}
    /\ obs = [t \in Threads |-> NoObs]
    /\ arrivals = MaxArrivals
    /\ answer = NoAnswer
    /\ convo = NoConvo

SpecFair == InitFair /\ [][Next]_vars /\ Fairness

\* ------------------------------------------------------------------------
\* normalize_answer applied to a generated text, and to its own result
\* ------------------------------------------------------------------------
InitNormalize ==
    /\ InitService
    /\ convo = NoConvo
    /\ answer \in {[NoAnswer EXCEPT !.raw = text, !.out = text] : text \in Texts}

Normalize ==
    /\ answer.n < 2
    /\ answer' = [answer EXCEPT !.out = normalize_answer(@),
                                !.once = IF answer.n = 0
                                         THEN normalize_answer(answer.out) ELSE @,
                                !.n = @ + 1]
    /\ UNCHANGED <<svars, convo>>

NextNormalize == Normalize

SpecNormalize == InitNormalize /\ [][NextNormalize]_vars

\* ------------------------------------------------------------------------
\* the history loop of ask_question run on a supplied history
\* ------------------------------------------------------------------------
InitHistory ==
    /\ InitService
    /\ answer = NoAnswer
    /\ convo \in {[NoConvo EXCEPT !.history = h] : h \in Histories}

BuildConversation ==
    /\ ~convo.built
    /\ convo' = [convo EXCEPT
                    !.built = TRUE,
                    !.raised = HistoryRaises(convo.history),
                    !.context = IF HistoryRaises(convo.history) THEN << >>
                                ELSE conversation_context(convo.history)]
    /\ UNCHANGED <<svars, answer>>

NextHistory == BuildConversation

SpecHistory == InitHistory /\ [][NextHistory]_vars


\* ------------------------------------------------------------------------
\* Vocabulary of the properties
\* ------------------------------------------------------------------------
\* the clock value read by the process-pdf request that built an index
BuiltAt(vectorstore) == vectorstore.id

\* the entry of key k in store s, the pair of None when there is none
EntryOf(s, k) ==
    IF k \in DOMAIN s THEN s[k]
    ELSE [vectorstore |-> NoneVS, upload_time |-> NoneTime]

IsQuery(t) == req[t].op \in {"ask", "summarize"}

SoftUpload(t) == Result(FieldOf(req[t].op), "Please upload a PDF first!")

\* places inside a with sessions_lock block that spans several steps
InLockPcs == {"reset_clear", "reset_release", "search", "gen", "cmp_search"}

\* places whose next step reads or writes the session map or searches an index
AccessPcs == {"pp_set", "reset_clear", "status", "get", "cmp_get1", "cmp_get2",
              "search", "cmp_search"}

\* places where a handler waits to take sessions_lock
LockWaitPcs == {"pp_set", "reset_lock", "status", "get", "lock",
                "cmp_get1", "cmp_get2", "cmp_lock"}

\* ------------------------------------------------------------------------
\* Properties
\* ------------------------------------------------------------------------

\* C1: when ask, summarize or compare runs its similarity search, the index
\* it searches is the one stored under that key at that moment (the lock was
\* held from resolving the index to searching it).
C1_SearchesStoredIndex ==
    \A t \in Threads :
        /\ pc[t] = "search" =>
              /\ req[t].session_id \in DOMAIN sessions
              /\ sessions[req[t].session_id].vectorstore = loc[t].vectorstore
        /\ pc[t] = "cmp_search" =>
              /\ req[t].session_id \in DOMAIN sessions
              /\ sessions[req[t].session_id].vectorstore = loc[t].vectorstore
              /\ req[t].session_id_2 \in DOMAIN sessions
              /\ sessions[req[t].session_id_2].vectorstore = loc[t].vectorstore_2

\* C2: the (index, upload_time) pair an ask or summarize request resolved is
\* the pair of one ingestion: the index is there and the timestamp is the one
\* read by the request that built this index.
C2_ResolvedPairIsWhole ==
    \A t \in Threads :
        (IsQuery(t) /\ pc[t] \in {"lock", "search", "gen"}) =>
            /\ loc[t].vectorstore # NoneVS
            /\ loc[t].upload_time # NoneTime
            /\ loc[t].upload_time = BuiltAt(loc[t].vectorstore)

\* C2 witness: a query holds the pair of an index that a process-pdf request
\* on the other worker has replaced under the same key in the meantime.
C2_Witness ==
    \E t \in Threads, u \in Threads :
        /\ t # u
        /\ req[t].op = "ask" /\ pc[t] = "lock"
        /\ req[u].op = "process-pdf" /\ pc[u] = "done"
        /\ resp[u].field = "message"
        /\ req[u].session_id = req[t].session_id
        /\ resp[u].upload_time # loc[t].upload_time
        /\ loc[t].vectorstore.id \in superseded

\* C3: an ask or summarize request searches the index that was stored under
\* its key when it looked the key up, and when the request started after an
\* index had been replaced, it never searches that index and no chunk of that
\* index is in the context it retrieves or in the result it returns.
C3_ReplacedIndexIsGone ==
    \A t \in Threads :
        IsQuery(t) =>
          /\ \A i \in obs[t].searched : obs[t].found = <<i>>
          /\ \A old \in obs[t].supAtStart :
                /\ old \notin obs[t].searched
                /\ pc[t] \in {"lock", "search", "gen"} => loc[t].vectorstore.id # old
                /\ \A c \in loc[t].context \cup resp[t].context : c.src # old

\* C3 witness: after two process-pdf requests in all, the second of which
\* replaced the index of the first, a request that started afterwards got an
\* answer from the chunks of the second document.
C3_Witness ==
    \E t \in Threads :
        /\ req[t].op = "ask" /\ pc[t] = "done"
        /\ clock = 3
        /\ obs[t].supAtStart = {1}
        /\ resp[t].text = "generated"
        /\ resp[t].context = ChunksOf("doc.pdf", 2)

\* C4: no caller is still waiting in generate_response once the generation
\* timeout has passed (it has been given the GenerationTimeout failure).
C4_GenerationIsBounded ==
    \A t \in Threads : ~(pc[t] = "gen" /\ overdue[t])

\* C5: while a generation call is outstanding for one request, a request on
\* another worker that waits for sessions_lock can take it.
C5_GenerationLeavesLockFree ==
    \A t \in Threads, u \in Threads :
        (t # u /\ pc[t] = "gen" /\ pc[u] \in LockWaitPcs) =>
            CanAcquire(sessions_lock, u)

\* C6: an ask or summarize request whose lookup found no entry under its key
\* has returned the "Please upload a PDF first!" result, without a similarity
\* search and without a generation call.
C6_SoftResultWhenNoEntry ==
    \A t \in Threads :
        (IsQuery(t) /\ obs[t].found = <<0>>) =>
            /\ pc[t] = "done"
            /\ resp[t] = SoftUpload(t)
            /\ obs[t].searched = {}
            /\ ~obs[t].generated

\* C6 witness: the soft result for a key that was reset, while the other key
\* has an entry.
C6_Witness ==
    \E t \in Threads :
        /\ req[t].op = "summarize" /\ pc[t] = "done"
        /\ obs[t].found = <<0>>
        /\ obs[t].lookupInGap
        /\ resp[t] = SoftUpload(t)
        /\ DOMAIN sessions # {}

\* C7: compare, given two session keys (strings; both lookups have looked
\* them up), returns the hard error, without search or generation, when
\* one of its two lookups found no entry; when both found one it does not
\* return that error, and the comparison it returns comes from a search of
\* both indexes, each side's context from that side's index.
C7_CompareNeedsBoth ==
    \A t \in Threads :
        (req[t].op = "compare" /\ Len(obs[t].found) = 2) =>
            IF obs[t].found[1] = 0 \/ obs[t].found[2] = 0
            THEN /\ pc[t] = "done"
                 /\ resp[t] = Result("error", "One or both sessions do not have a PDF loaded")
                 /\ obs[t].searched = {}
                 /\ ~obs[t].generated
            ELSE /\ resp[t].text # "One or both sessions do not have a PDF loaded"
                 /\ pc[t] = "gen" =>
                        /\ obs[t].searched = {obs[t].found[1], obs[t].found[2]}
                        /\ \A c \in loc[t].context : c.src = obs[t].found[1]
                        /\ \A c \in loc[t].context_2 : c.src = obs[t].found[2]
                 /\ resp[t].field = "comparison" =>
                        /\ obs[t].searched = {obs[t].found[1], obs[t].found[2]}
                        /\ obs[t].generated
                        /\ \A c \in resp[t].context : c.src = obs[t].found[1]
                        /\ \A c \in resp[t].context_2 : c.src = obs[t].found[2]

\* C7 witness: a compare of two different keys of which only the first has
\* an entry ended with the hard error.
C7_Witness ==
    \E t \in Threads :
        /\ req[t].op = "compare" /\ pc[t] = "done"
        /\ req[t].session_id # req[t].session_id_2
        /\ Len(obs[t].found) = 2
        /\ obs[t].found[1] # 0 /\ obs[t].found[2] = 0
        /\ resp[t].field = "error"

\* C7, the other case is reached too: a comparison built from the contexts
\* of two different sessions.
C7_BothPresentReached ==
    \E t \in Threads :
        /\ req[t].op = "compare" /\ pc[t] = "done"
        /\ req[t].session_id # req[t].session_id_2
        /\ resp[t].field = "comparison"
        /\ resp[t].context # {} /\ resp[t].context_2 # {}

\* a compare request whose second session id cannot be hashed, after its
\* first lookup found an index: the exception left the handler, nothing was
\* searched and the lock is free
C7_LookupRaisedReached ==
    \E t \in Threads :
        /\ req[t].op = "compare" /\ pc[t] = "done"
        /\ obs[t].outcome = "lookup_raised"
        /\ Len(obs[t].found) = 1 /\ obs[t].found[1] # 0
        /\ resp[t] = Unhandled
        /\ obs[t].searched = {} /\ ~obs[t].generated
        /\ sessions_lock = FreeLock

\* a compare request whose first session id cannot be hashed, with both keys
\* in the store: the exception left the handler before any lookup returned
C7_FirstLookupRaisedReached ==
    \E t \in Threads :
        /\ req[t].op = "compare" /\ pc[t] = "done"
        /\ obs[t].outcome = "lookup_raised"
        /\ obs[t].found = << >>
        /\ resp[t] = Unhandled
        /\ DOMAIN sessions = Keys
        /\ sessions_lock = FreeLock

\* C8: an ask whose question is empty after trimming fails with InvalidInput
\* and runs neither a similarity search nor a generation call.
C8_EmptyQuestionIsRejected ==
    \A t \in Threads :
        (req[t].op = "ask" /\ Strip(req[t].question) = << >>) =>
            /\ obs[t].searched = {}
            /\ ~obs[t].generated
            /\ pc[t] = "done" => resp[t].text = "InvalidInput"

\* C9: no step of a reset request on a key without entry changes the store,
\* and a reset request returns the same success message with its session id
\* whether or not its key had an entry.
C9_ResetOfAbsentKeyIsNoOp ==
    /\ [][\A t \in Threads :
            (req[t].op = "reset" /\ pc'[t] # pc[t]
             /\ req[t].session_id \notin DOMAIN sessions) => sessions' = sessions]_vars
    /\ [](\A t \in Threads :
            (req[t].op = "reset" /\ pc[t] = "done") =>
                resp[t] = [Result("message", "Session cleared successfully") EXCEPT
                              !.session_id = req[t].session_id])

\* C9 witness: a reset of a key without entry has returned while the store
\* holds an entry under the other key.
C9_Witness ==
    \E t \in Threads :
        /\ req[t].op = "reset" /\ pc[t] = "done"
        /\ obs[t].absent
        /\ resp[t].text = "Session cleared successfully"
        /\ DOMAIN sessions # {}

\* C10 as stated: a status request that reads the store while its key is one
\* whose reset has returned, with no process-pdf installed under it since
\* the return, reports pdf_loaded = false and no upload_time, and an ask or
\* summarize request that STARTS while its key is in that state returns the
\* "Please upload a PDF first!" result.
C10_AsStated ==
    \A t \in Threads :
        /\ (req[t].op = "status" /\ obs[t].lookupInGap) =>
              (~resp[t].pdf_loaded /\ resp[t].upload_time = NoneTime)
        /\ (IsQuery(t) /\ obs[t].startedInGap) =>
              (pc[t] \in {"get", "done"} /\ (pc[t] = "done" => resp[t] = SoftUpload(t)))

\* C10 as stated fails for status: a process-pdf installed under the key
\* after the reset gave the lock back and before the reset returned, so the
\* key has an entry although nothing was installed since the return, and a
\* status request reports it.
C10_InstalledBeforeReturnReached ==
    \E t \in Threads :
        /\ req[t].op = "status" /\ pc[t] = "done"
        /\ obs[t].lookupInGap /\ ~obs[t].lookupCleared
        /\ resp[t].pdf_loaded
        /\ req[t].session_id \in gap \cap DOMAIN sessions

\* C10 as stated fails for ask: the request started after the reset had
\* returned and before any install, looked its key up after a process-pdf had
\* installed, and answered from the new index.
C10_LateLookupReached ==
    \E t \in Threads :
        /\ req[t].op = "ask" /\ pc[t] = "done"
        /\ obs[t].startedInGap /\ ~obs[t].lookupInGap /\ ~obs[t].lookupCleared
        /\ resp[t].text = "generated"

\* C10 amended: a key whose entry a reset has cleared, with no process-pdf
\* installed under it since the clearing, has no entry; a status request
\* whose read of the store happens then reports pdf_loaded = false and no
\* upload_time, and an ask or summarize request whose index LOOKUP happens
\* then returns the "Please upload a PDF first!" result, without search or
\* generation.  The clearing is before the reset returns, and an install
\* between the two ends the interval.
C10_NoEntryAfterReset ==
    /\ \A k \in cleared : k \notin DOMAIN sessions
    /\ \A t \in Threads :
        /\ (req[t].op = "status" /\ obs[t].lookupCleared) =>
              (pc[t] = "done" /\ ~resp[t].pdf_loaded /\ resp[t].upload_time = NoneTime)
        /\ (IsQuery(t) /\ obs[t].lookupCleared) =>
              (pc[t] = "done" /\ resp[t] = SoftUpload(t)
               /\ obs[t].searched = {} /\ ~obs[t].generated)

\* C10 witness: after a process-pdf and a reset under the same key, the reset
\* having returned, an ask and a status request on that key both found no
\* entry.
C10_Witness ==
    \E t \in Threads, u \in Threads :
        /\ req[t].op = "ask" /\ pc[t] = "done"
        /\ obs[t].lookupCleared /\ obs[t].lookupInGap
        /\ resp[t] = SoftUpload(t)
        /\ req[u].op = "status" /\ pc[u] = "done"
        /\ req[u].session_id = req[t].session_id
        /\ obs[u].lookupCleared /\ obs[u].lookupInGap
        /\ ~resp[u].pdf_loaded
        /\ clock = 2 /\ sessions = << >>

\* C11: for every key in the store, the stored upload timestamp is the clock
\* value read by the process-pdf request that built the index stored with it,
\* and a status request reports the timestamp of the index that was stored
\* under its key when it looked (and no timestamp when none was).
C11_TimestampBelongsToIndex ==
    /\ \A k \in DOMAIN sessions :
          sessions[k].upload_time = BuiltAt(sessions[k].vectorstore)
    /\ \A t \in Threads :
          (pc[t] = "done" /\ req[t].op = "status") =>
              /\ Len(obs[t].found) = 1
              /\ resp[t].pdf_loaded = (obs[t].found[1] # 0)
              /\ resp[t].upload_time = obs[t].found[1]

\* a status request reported the timestamp of the second index stored under
\* its key, after the first had been replaced
C11_Witness ==
    \E t \in Threads :
        /\ pc[t] = "done" /\ req[t].op = "status"
        /\ resp[t].pdf_loaded /\ resp[t].upload_time = 2
        /\ 1 \in superseded
        /\ req[t].session_id \in DOMAIN sessions
        /\ sessions[req[t].session_id].upload_time = 2
        /\ BuiltAt(sessions[req[t].session_id].vectorstore) = 2

\* C12: the store entry of a key changes only in the installing step of a
\* successful process-pdf request with that key, which puts that request's
\* index and timestamp there, or in the clearing step of a reset request with
\* that key, which removes it; no step of ask, summarize, compare or status,
\* and no step of a request with another key, changes it.
C12_StoreChangesOnlyByInstallOrReset ==
    [][\A k \in Keys :
          EntryOf(sessions', k) # EntryOf(sessions, k) =>
              \E t \in Threads :
                  /\ req[t].session_id = k
                  /\ \/ /\ req[t].op = "process-pdf"
                        /\ pc[t] = "pp_set" /\ pc'[t] = "done"
                        /\ resp'[t].text = "PDF processed successfully"
                        /\ EntryOf(sessions', k) =
                               [vectorstore |-> loc[t].vectorstore,
                                upload_time |-> loc[t].upload_time]
                     \/ /\ req[t].op = "reset"
                        /\ pc[t] = "reset_clear" /\ pc'[t] = "reset_release"
                        /\ k \notin DOMAIN sessions']_vars

\* a compare request read both keys and returned its comparison, and each key
\* still has the entry its own process-pdf request installed
C12_Witness ==
    /\ DOMAIN sessions = Keys
    /\ \A k \in Keys : \A j \in Keys \ {k} :
          sessions[k].vectorstore.id # sessions[j].vectorstore.id
    /\ \E t \in Threads :
          /\ pc[t] = "done" /\ req[t].op = "compare"
          /\ req[t].session_id # req[t].session_id_2
          /\ resp[t].field = "comparison"
          /\ resp[t].context = sessions[req[t].session_id].vectorstore.chunks
          /\ resp[t].context_2 = sessions[req[t].session_id_2].vectorstore.chunks

\* C13: a process-pdf request for a file that cannot be loaded, has no pages
\* or gives no chunks returns an error result, and a step of a process-pdf
\* request changes the store only when it is the step that returns the
\* success message (so a request that fails, for these reasons or because
\* index building raised, has left the store as it was).
C13_FailedIngestLeavesStore ==
    /\ [](\A t \in Threads :
            (/\ pc[t] = "done" /\ req[t].op = "process-pdf"
             /\ req[t].filePath \in {"missing.pdf", "nopages.pdf", "blank.pdf"})
            => resp[t].field = "error")
    /\ [][\A t \in Threads :
            (/\ req[t].op = "process-pdf"
             /\ pc'[t] # pc[t]
             /\ sessions' # sessions)
            => resp'[t].text = "PDF processed successfully"]_vars

\* a process-pdf request for a document without chunks failed under a key
\* whose earlier index is still stored, and an ask request on that key was
\* answered from that index
C13_Witness ==
    \E t \in Threads, u \in Threads :
        /\ pc[t] = "done" /\ req[t].op = "process-pdf"
        /\ req[t].filePath = "blank.pdf" /\ resp[t].field = "error"
        /\ req[t].session_id \in DOMAIN sessions
        /\ sessions[req[t].session_id].upload_time = 1
        /\ clock = 2
        /\ pc[u] = "done" /\ req[u].op = "ask"
        /\ req[u].session_id = req[t].session_id
        /\ resp[u].context = sessions[req[t].session_id].vectorstore.chunks
        /\ resp[u].context # {}

\* C14: when the similarity search of an ask or summarize request returns zero
\* chunks, the request has found an index, returns the soft no-context
\* result of its handler, has not called the generation backend and does not
\* hold the lock, and the step in which that happens leaves the store as it
\* was.
C14_ZeroChunksIsSoft ==
    /\ [](\A t \in Threads :
            (IsQuery(t) /\ obs[t].outcome = "empty") =>
                /\ pc[t] = "done"
                /\ resp[t] = Result(FieldOf(req[t].op), NoContextText(req[t].op))
                /\ ~obs[t].generated
                /\ sessions_lock.owner # t
                /\ Len(obs[t].found) = 1 /\ obs[t].found[1] # 0)
    /\ [][\A t \in Threads :
            (IsQuery(t) /\ obs[t].outcome # "empty" /\ obs'[t].outcome = "empty")
            => sessions' = sessions]_vars

\* an ask request whose search found nothing in the stored index has returned
\* the soft result, and the lock is free
C14_Witness ==
    \E t \in Threads :
        /\ req[t].op = "ask" /\ obs[t].outcome = "empty"
        /\ pc[t] = "done"
        /\ resp[t].text = "No relevant context found in the current PDF."
        /\ req[t].session_id \in DOMAIN sessions
        /\ obs[t].searched = {sessions[req[t].session_id].vectorstore.id}
        /\ sessions_lock = FreeLock

\* C15: when the similarity search or the generation call of an ask,
\* summarize or compare request raises, the request returns its handler's
\* error text in its handler's result field and does not hold the lock, and
\* the step in which that happens leaves the store as it was.
C15_RaisedFailureIsCaught ==
    /\ [](\A t \in Threads :
            (/\ req[t].op \in {"ask", "summarize", "compare"}
             /\ obs[t].outcome \in {"search_raised", "gen_raised"}) =>
                /\ pc[t] = "done"
                /\ resp[t].field = (CASE req[t].op = "ask" -> "answer"
                                      [] req[t].op = "summarize" -> "summary"
                                      [] OTHER -> "error")
                /\ resp[t].text = (CASE req[t].op = "ask" -> "Error processing question"
                                     [] req[t].op = "summarize" -> "Error summarizing PDF"
                                     [] OTHER -> "Error comparing PDFs")
                /\ sessions_lock.owner # t)
    /\ [][\A t \in Threads :
            (/\ obs'[t].outcome \in {"search_raised", "gen_raised"}
             /\ obs[t].outcome \notin {"search_raised", "gen_raised"})
            => sessions' = sessions]_vars

\* the generation call of a compare request over two stored indexes raised;
\* the request returned the error result and the lock is free
C15_Witness ==
    \E t \in Threads :
        /\ req[t].op = "compare" /\ obs[t].outcome = "gen_raised"
        /\ pc[t] = "done" /\ resp[t].field = "error"
        /\ obs[t].generated
        /\ {req[t].session_id, req[t].session_id_2} = DOMAIN sessions
        /\ sessions_lock = FreeLock

\* the similarity search of a summarize request raised; the request returned
\* the error text in its summary field
C15_SearchRaisedReached ==
    \E t \in Threads :
        /\ req[t].op = "summarize" /\ obs[t].outcome = "search_raised"
        /\ pc[t] = "done" /\ resp[t].field = "summary"
        /\ ~obs[t].generated

\* the history loop of an ask request raised on an entry that is not a dict:
\* the request returned the error text in its answer field without a search
C15_HistoryRaisedReached ==
    \E t \in Threads :
        /\ req[t].op = "ask" /\ obs[t].outcome = "history_raised"
        /\ pc[t] = "done" /\ resp[t] = OnException("ask")
        /\ obs[t].searched = {} /\ ~obs[t].generated
        /\ Len(obs[t].found) = 1 /\ obs[t].found[1] # 0
        /\ sessions_lock = FreeLock

\* C16: a thread inside a with sessions_lock block is the owner of the lock,
\* at most one thread is inside such a block at any instant whatever the keys
\* are, and every step that reads or writes the session map or searches an
\* index is taken while no other thread owns the lock (the stepping thread
\* owns it during the access).
C16_StoreWideSerialization ==
    /\ [](\A t \in Threads : pc[t] \in InLockPcs => sessions_lock.owner = t)
    /\ [](Cardinality({t \in Threads : pc[t] \in InLockPcs}) <= 1)
    /\ [](sessions_lock.owner # "free" => pc[sessions_lock.owner] \in InLockPcs)
    /\ [][\A t \in Threads :
            (pc[t] \in AccessPcs /\ pc'[t] # pc[t])
            => sessions_lock.owner \in {"free", t}]_vars

\* a query on one key holds the lock during its search or generation while a
\* request on another key stands before its own store access
C16_Witness ==
    \E t \in Threads, u \in Threads :
        /\ pc[t] \in {"search", "gen"} /\ sessions_lock.owner = t
        /\ pc[u] \in {"pp_set", "status", "reset_lock"}
        /\ req[u].session_id # req[t].session_id

\* C17: normalize_answer applied to its own result gives that result again.
C17_NormalizeIsIdempotent ==
    answer.n = 2 => answer.out = answer.once

\* the lines of the entries of h at positions i and later that have a role
\* and a content
RECURSIVE LinesFrom(_, _)
LinesFrom(h, i) ==
    IF i > Len(h) THEN << >>
    ELSE (IF h[i].role # "" /\ h[i].content # ""
          THEN <<h[i].role, ": ", h[i].content, "\n">> ELSE << >>)
             \o LinesFrom(h, i + 1)

\* C18: the conversation context ask builds from a history of any length is
\* made of the lines role: content of entries among its last 5, in their
\* order (the entries among them without a role or a content give no line),
\* so it has at most 5 lines and nothing of an earlier entry; the loop fails
\* only on an entry among the last 5.
C18_LastFiveTurnsInOrder ==
    convo.built =>
        LET h == convo.history
            first == IF Len(h) > 5 THEN Len(h) - 4 ELSE 1
        IN  /\ ~convo.raised => /\ convo.context = LinesFrom(h, first)
                                /\ Len(convo.context) <= 5 * 4
            /\ convo.raised <=> \E i \in first..Len(h) : ~h[i].dict

\* a history of 6 entries, each with role and content and the first unlike
\* the last, gave the 5 lines of its last 5 entries
C18_Witness ==
    /\ convo.built /\ ~convo.raised
    /\ Len(convo.history) = 6
    /\ \A i \in 1..6 : convo.history[i].role # "" /\ convo.history[i].dict
    /\ convo.history[1].role = "user" /\ convo.history[2].role = "assistant"
    /\ convo.history[6].role = "assistant"
    /\ Len(convo.context) = 5 * 4
    /\ convo.context[1] = "assistant"

\* a history whose first entry is no dict and whose last 5 are gave its
\* context without failing
C18_EarlyEntryUnread ==
    /\ convo.built /\ ~convo.raised
    /\ Len(convo.history) = 6
    /\ ~convo.history[1].dict

\* C19: between a process-pdf request's reading of the clock and its install
\* no other request's install or clear changes the entry of its key, and a
\* replacement never puts an earlier timestamp in the place of a later one.
C19_TimestampIsInstallTime ==
    [][/\ \A t \in Threads :
            (pc[t] = "pp_set" /\ pc'[t] = "pp_set")
            => EntryOf(sessions', req[t].session_id)
                   = EntryOf(sessions, req[t].session_id)
       /\ \A k \in DOMAIN sessions \cap DOMAIN sessions' :
            sessions'[k].upload_time >= sessions[k].upload_time]_vars

\* C20: a thread whose handler has returned, by whatever path, does not own
\* the lock; and when threads keep running, search and generation calls come
\* back and the lock is fair, a request waiting to enter a with sessions_lock
\* block comes to own the lock, a reset that owns it gets through the nested
\* acquisition of clear_session, and every request that has started returns.
C20_GuardDisciplineAndProgress ==
    /\ [](\A t \in Threads : pc[t] \in {"idle", "done"} => sessions_lock.owner # t)
    /\ \A t \in Threads :
          (pc[t] \in {"lock", "cmp_lock", "reset_lock"}) ~> (sessions_lock.owner = t)
    /\ \A t \in Threads : (pc[t] = "reset_clear") ~> (pc[t] = "reset_release")
    /\ \A t \in Threads : (pc[t] \notin {"idle", "done"}) ~> (pc[t] = "done")

\* a reset request has taken the lock a second time inside clear_session and
\* given it back, and still holds it, while another request waits for it
C20_Witness ==
    \E t \in Threads, u \in Threads :
        /\ pc[t] = "reset_release" /\ sessions_lock = [owner |-> t, depth |-> 1]
        /\ pc[u] \in LockWaitPcs

====
